---- MODULE Spec2Model ----
(***************************************************************************)
(* Model of the humanbuy trade scheduler (src/humanbuy.js, both revisions  *)
(* kept in src/unnamed/part_002) and of the pause hotkey                   *)
(* (src/hotkeySell.js).                                                    *)
(*                                                                         *)
(* version = 2 is the revision with metrics-based sell sequences           *)
(* (part_002 lines 1781-2851); version = 1 is the revision with the        *)
(* predetermined sell structure (part_002 lines 1072-1780).                *)
(*                                                                         *)
(* Wallets are identified by their 1-based index in wallets.txt.  The      *)
(* external lookups (SOL balance, token balance, bonding curve, network    *)
(* submission) are the environment: every outcome the code distinguishes   *)
(* is a nondeterministic input of the step that consumes it.  A step of    *)
(* the model is the code between two awaits at which another handler       *)
(* (the key-press handler) can run.                                        *)
(***************************************************************************)
EXTENDS Integers, Sequences, FiniteSets, TLC

\* ------------------------------------------------------------------ bounds
NumWallets == 4
MaxFaults == 1
MaxTokenBalance == 1
MaxBuys == 8
DrawSteps == 1
DrawGrid == 20
MaxAvailable == 9
MaxReserve == 4
MaxLamports == 4

\* ------------------------------------------------------- program constants
MAX_REBUY_COUNT == 10
MAX_REBUY_COUNT_V1 == 3
MaxConsecutiveSells == 7
MinSellPoint == 4
MaxSellPoint == 17
FirstSellAfter == 3
SubsequentSellMin == 2
SubsequentSellMax == 4
RetryAfterV1 == 2

Wallets == 1..NumWallets
NoWallet == 0
Versions == {1, 2}

VARIABLES
    version,              \* which revision of humanbuy.js runs
    selectedWallets,      \* result of the wallet selection (sequence of wallets)
    walletCycle,          \* sequence of cycle entries
    walletCyclePosition,  \* number of entries of walletCycle already taken
    walletInfo,           \* the entry processed by the current tick
    buyCounter,
    skippedWallets,
    buysUntilNextSell,
    successfulBuyWallets, \* Map pubKey -> info; info is whether tokenAccountPubKey is set
    usedSellWallets,
    rebuyCountMap,        \* Map pubKey -> count; 0 stands for "no entry" (get(k) || 0)
    blacklistedWallets,
    isPaused,
    pc,                   \* "top", "delay", "sells", "selling", "done"
    sellSeq,              \* locals of the running sell sequence
    seller,               \* wallet chosen by executeSessionSell, viaFallback flag
    event,                \* what the last step did (observation only)
    boughtSinceUsed,      \* history: wallets with a successful buy since they were last put in usedSellWallets
    soldWallets,          \* history: wallets with at least one successful sell
    runEnd,               \* how humanbuy returned: lines of the final summary printed, error thrown
    blacklistCause,       \* history: for a blacklisted wallet, what the refill that blacklisted it saw
    sizedBelowMinimum,    \* history: wallets for which a refill of revision 2 computed a rebuy amount below 0.01
    pendingSends,         \* sends abandoned by their 5-second timeout, neither resolved nor rejected yet
    faults,               \* history: number of environment failures so far (bounded by MaxFaults)
    calc,                 \* the last call of a function checked on its own: name, arguments, results
    tracker               \* the token tracker: rows of its table, signatures and valid transactions seen

humanbuyVars == <<version, selectedWallets, walletCycle, walletCyclePosition, walletInfo,
                  buyCounter, skippedWallets, buysUntilNextSell, successfulBuyWallets,
                  usedSellWallets, rebuyCountMap, blacklistedWallets, isPaused, pc,
                  sellSeq, seller, event, boughtSinceUsed, soldWallets, runEnd,
                  blacklistCause, sizedBelowMinimum, pendingSends, faults>>

vars == <<humanbuyVars, calc, tracker>>

\* ----------------------------------------------------------------- helpers
Min(a, b) == IF a < b THEN a ELSE b

Range(s) == {s[i] : i \in 1..Len(s)}

\* all orderings of a finite set, as sequences
Orderings(S) == {s \in [1..Cardinality(S) -> S] : \A i, j \in 1..Cardinality(S) : s[i] = s[j] => i = j}

MaxRebuy(v) == IF v = 1 THEN MAX_REBUY_COUNT_V1 ELSE MAX_REBUY_COUNT

NoEvent == [kind |-> "none", wallet |-> NoWallet, dispatched |-> FALSE,
            amount |-> 0, reported |-> 0, index |-> 0, paused |-> FALSE]

\* kind of step, wallet it was about, whether a transaction was handed to the
\* network, with which amount, the token balance the lookup reported, the
\* index of the sell in its sequence, and the pause flag when the step ran
Ev(k, w, d, a, r, i) == [kind |-> k, wallet |-> w, dispatched |-> d,
                         amount |-> a, reported |-> r, index |-> i, paused |-> isPaused]

\* sold and eligibleAtStart are history: the sells of the sequence that went
\* through, and the number of sell-eligible wallets when the sequence started
NoSeq == [count |-> 0, i |-> 0, successfulSells |-> 0, lastSellWallet |-> NoWallet,
          pausedAtStart |-> FALSE, sold |-> 0, eligibleAtStart |-> 0]

NoSeller == [wallet |-> NoWallet, viaFallback |-> FALSE]

Entry(w, isRebuy, n) == [wallet |-> w, isRebuy |-> isRebuy, rebuyCount |-> n]

NoEntry == Entry(NoWallet, FALSE, 0)

\* what calculateDynamicBuyAmount reads from outside: the SOL balance (-1: the
\* lookup failed), the bonding curve ("failed": account or layout unreadable,
\* "low": real token reserves below 1M, "noEstimate": humanBuyAmount threw,
\* "ok"), the SOL that would buy the 29M token target, the random draw
Obs(b, c, m, r) == [balance |-> b, curve |-> c, maxSolForTarget |-> m, r |-> r]

NoObs == Obs(0, "none", 0, 0)

NoCause == [atLimit |-> FALSE, obs |-> NoObs]

\* the token tracker before its first batch; a transaction is named by its
\* block time, signatures are numbered in the order the chain produced them
NoTracker == [table |-> <<>>, seen |-> 0, valid |-> {}]

\* no function called on its own yet
NoCalc == [fn |-> "none", args |-> <<>>, out |-> <<>>, threw |-> <<>>]

\* ------------------------------------------------------ the end of humanbuy
NoRunEnd == [ended |-> FALSE, summaryLines |-> 0, threw |-> FALSE]

\* names the finally block of humanbuy can resolve: rl is declared before the
\* try; the tracking variables are declared with let inside the try block
FinallyScope == {"rl"}

\* names read by the three summary lines of the finally block, in order
FinallyReads == <<"buyCounter", "usedSellWallets", "skippedWallets">>

\* number of summary lines printed before a read of an unresolvable name throws
RECURSIVE LinesPrinted(_)
LinesPrinted(reads) ==
    IF reads = <<>> THEN 0
    ELSE IF Head(reads) \in FinallyScope THEN 1 + LinesPrinted(Tail(reads))
         ELSE 0

\* the finally block after the main loop was left by break
RunFinally ==
    [ended |-> TRUE,
     summaryLines |-> LinesPrinted(FinallyReads),
     threw |-> LinesPrinted(FinallyReads) < Len(FinallyReads)]

\* ------------------------------------------------------- wallet selection
\* selectSpecificWallets: keep valid indices, drop repeated ones, fall back to wallet #1
RECURSIVE Dedup(_, _)
Dedup(s, seen) ==
    IF s = <<>> THEN <<>>
    ELSE IF Head(s) \in seen THEN Dedup(Tail(s), seen)
         ELSE <<Head(s)>> \o Dedup(Tail(s), seen \cup {Head(s)})

RECURSIVE FilterValid(_)
FilterValid(s) ==
    IF s = <<>> THEN <<>>
    ELSE IF Head(s) >= 1 /\ Head(s) <= NumWallets
         THEN <<Head(s)>> \o FilterValid(Tail(s))
         ELSE FilterValid(Tail(s))

\* variant of selectSpecificWallets without the removal of duplicates
selectSpecificWalletsKeepingDuplicates(indices) ==
    LET validIndices == FilterValid(indices)
    IN  IF validIndices = <<>> THEN <<1>> ELSE validIndices

selectSpecificWallets(indices) ==
    LET validIndices == Dedup(FilterValid(indices), {})
    IN  IF validIndices = <<>> THEN <<1>> ELSE validIndices

\* selectRandomWallets: the whole list when count covers it, otherwise any
\* count distinct wallets in any order
selectRandomWallets(count) ==
    LET walletCount == Min(IF count = 0 THEN 1 ELSE count, NumWallets)
    IN  IF walletCount = NumWallets
        THEN {[i \in 1..NumWallets |-> i]}
        ELSE UNION {Orderings(S) : S \in {T \in SUBSET Wallets : Cardinality(T) = walletCount}}

\* the selections a run of the model starts from
SelectionInputs ==
    {[type |-> "random", count |-> NumWallets, indices |-> <<>>],
     [type |-> "specific", count |-> 0, indices |-> <<2, 1, 2, 3, NumWallets + 1>>]}

selectWalletsForTrading(cfg) ==
    IF cfg.type = "random" THEN selectRandomWallets(cfg.count)
    ELSE {selectSpecificWallets(cfg.indices)}

\* ------------------------------------------------------------ sell policy
\* Math.random() in thousandths: the draws the scheduler's steps are explored with
Draws == {(k * 999) \div DrawSteps : k \in 0..DrawSteps}

\* Math.random() in thousandths for the checks of the policy functions alone:
\* a grid with the edges of every probability band of the policy
BandEdges == {0, 299, 300, 399, 400, 499, 500, 649, 650, 699, 700, 899, 900, 999}
FineDraws == BandEdges \cup {(k * 999) \div DrawGrid : k \in 0..DrawGrid}

\* Math.round of a non-negative value given in millionths
RoundMillionths(n) == (n + 500000) \div 1000000

Clamp(lo, hi, x) == IF x < lo THEN lo ELSE IF x > hi THEN hi ELSE x

\* variant of determineNextSellPoint whose upper outer band spans max - avg
\* instead of max - avg - 2 and whose result is not brought within bounds
determineNextSellPointWide(rand, r1, r2) ==
    IF rand < 700 THEN RoundMillionths(5370000 + r1 * 4000)
    ELSE IF rand < 900
         THEN IF r1 < 500 THEN RoundMillionths(MinSellPoint * 1000000 + r2 * 1370)
              ELSE RoundMillionths(9370000 + r2 * (MaxSellPoint * 1000 - 7370))
         ELSE IF r1 < 500 THEN MinSellPoint ELSE MaxSellPoint

\* determineNextSellPoint: min 4, max 17, avg 7.37; rand picks the band,
\* r1 the value (bands 1, 3) or the side (band 2), r2 the value of band 2
determineNextSellPoint(rand, r1, r2) ==
    LET buyCount ==
          IF rand < 700 THEN RoundMillionths(5370000 + r1 * 4000)
          ELSE IF rand < 900
               THEN IF r1 < 500 THEN RoundMillionths(MinSellPoint * 1000000 + r2 * 1370)
                    ELSE RoundMillionths(9370000 + r2 * (MaxSellPoint * 1000 - 9370))
               ELSE IF r1 < 500 THEN MinSellPoint ELSE MaxSellPoint
    IN  Clamp(MinSellPoint, MaxSellPoint, buyCount)

NextSellPoints == {determineNextSellPoint(rand, r1, r2) : rand \in Draws, r1 \in Draws, r2 \in Draws}

\* retry distance after a failed sell sequence: 2 + floor(random * 3)
NextAttempt(r) == 2 + (r * 3) \div 1000

\* revision 1: min + floor(random * (max - min + 1)) over subsequentSellRange
NextSellAfterV1(r) ==
    SubsequentSellMin + (r * (SubsequentSellMax - SubsequentSellMin + 1)) \div 1000

\* revision 1: one, two or three sells by tripleSellProbability 0.125 and
\* doubleSellProbability 0.367
SellsToExecuteV1(r) == IF r < 125 THEN 3 ELSE IF r < 125 + 367 THEN 2 ELSE 1

\* variant of determineConsecutiveSells bounded by 7 only, not by the wallets
determineConsecutiveSellsUncapped(availableWallets, rand, r1, r2) ==
    LET sellCount ==
          IF rand < 650 THEN RoundMillionths(1950000 + r1 * 2000)
          ELSE IF rand < 900
               THEN IF r1 < 400 THEN RoundMillionths(1000000 + r2 * 950)
                    ELSE RoundMillionths(3950000 + r2 * (MaxConsecutiveSells * 1000 - 3950))
               ELSE IF r1 < 300 THEN 1 ELSE MaxConsecutiveSells
    IN  Clamp(1, MaxConsecutiveSells, sellCount)

\* determineConsecutiveSells(availableWallets): min 1, max 7, avg 2.95
determineConsecutiveSells(availableWallets, rand, r1, r2) ==
    LET maxPossible == Min(MaxConsecutiveSells, availableWallets)
        sellCount ==
          IF rand < 650 THEN RoundMillionths(1950000 + r1 * 2000)
          ELSE IF rand < 900
               THEN IF r1 < 400 THEN RoundMillionths(1000000 + r2 * 950)
                    ELSE RoundMillionths(3950000 + r2 * (maxPossible * 1000 - 3950))
               ELSE IF r1 < 300 THEN 1 ELSE maxPossible
    IN  IF maxPossible <= 1 THEN 1 ELSE Clamp(1, maxPossible, sellCount)

ConsecutiveSellCounts(availableWallets) ==
    {determineConsecutiveSells(availableWallets, rand, r1, r2) : rand \in Draws, r1 \in Draws, r2 \in Draws}

\* wallets counted as available by executeSessionSells
AvailableWallets(sbw, used) == {w \in DOMAIN sbw : w \notin used}

\* variant of the filter without the usedSellWallets test
EligibleWalletsIgnoringUsed(sbw, used, lastUsed) ==
    {w \in DOMAIN sbw : ~(lastUsed = w /\ Cardinality(DOMAIN sbw) > 1)}

\* the filter of executeSessionSell
EligibleWallets(sbw, used, lastUsed) ==
    {w \in DOMAIN sbw :
        /\ w \notin used
        /\ ~(lastUsed = w /\ Cardinality(DOMAIN sbw) > 1)}

\* the special case of executeSessionSell when the filter leaves nothing
FallbackApplies(sbw, used, lastUsed) ==
    /\ lastUsed # NoWallet
    /\ lastUsed \in DOMAIN sbw
    /\ lastUsed \notin used

\* Map.set and Map.delete on successfulBuyWallets
MapSet(m, k, v) == [x \in DOMAIN m \cup {k} |-> IF x = k THEN v ELSE m[x]]
MapDelete(m, k) == [x \in DOMAIN m \ {k} |-> m[x]]

\* ------------------------------------------------------------------- Init
Init ==
    /\ version \in Versions
    /\ \E cfg \in SelectionInputs : selectedWallets \in selectWalletsForTrading(cfg)
    /\ walletCycle = [i \in 1..Len(selectedWallets) |-> Entry(selectedWallets[i], FALSE, 0)]
    /\ walletCyclePosition = 0
    /\ walletInfo = NoEntry
    /\ buyCounter = 0
    /\ skippedWallets = 0
    /\ buysUntilNextSell \in (IF version = 1 THEN {FirstSellAfter} ELSE NextSellPoints)
    /\ successfulBuyWallets = [w \in {} |-> FALSE]
    /\ usedSellWallets = {}
    /\ rebuyCountMap = [w \in Wallets |-> 0]
    /\ blacklistedWallets = {}
    /\ isPaused = FALSE
    /\ pc = "top"
    /\ sellSeq = NoSeq
    /\ seller = NoSeller
    /\ event = NoEvent
    /\ boughtSinceUsed = {}
    /\ soldWallets = {}
    /\ runEnd = NoRunEnd
    /\ blacklistCause = [w \in Wallets |-> NoCause]
    /\ sizedBelowMinimum = {}
    /\ pendingSends = 0
    /\ faults = 0
    /\ calc = NoCalc
    /\ tracker = NoTracker


\* ------------------------------------------------------- hotkey handler
\* onKeyPress with key.sequence = '/': toggles the global pause flag
TogglePause ==
    /\ UNCHANGED <<runEnd, blacklistCause, sizedBelowMinimum, calc, tracker, pendingSends>>
    /\ pc # "done"
    /\ isPaused' = ~isPaused
    /\ UNCHANGED <<version, selectedWallets, walletCycle, walletCyclePosition, walletInfo,
                   buyCounter, skippedWallets, buysUntilNextSell, successfulBuyWallets,
                   usedSellWallets, rebuyCountMap, blacklistedWallets, pc, sellSeq,
                   seller, event, boughtSinceUsed, soldWallets, faults>>

\* ------------------------------------------------------- main loop: head
\* amounts of SOL are in millionths of a SOL
MinRebuyAmount == 10000
FeeReserve == 50000

Max(a, b) == IF a > b THEN a ELSE b

\* floor(a * b / d) for a, b >= 0 and d > 0, computed without a product
\* beyond 32 bits
MulDiv(a, b, d) == (a \div d) * b + ((a % d) * b) \div d

\* calculateDirectBuyAmount(effectiveBalance); r is its Math.random() in thousandths
calculateDirectBuyAmount(effectiveBalance, r) ==
    LET base == IF effectiveBalance > 5000000 THEN 400
                ELSE IF effectiveBalance > 1000000 THEN 500 ELSE 600
        buyPercentage == base + (r * 200) \div 1000
        byPercentage  == Min(MulDiv(effectiveBalance, buyPercentage, 1000), 5000000)
    IN  Max(byPercentage, Min(100000, MulDiv(effectiveBalance, 9, 10)))

\* checkWalletBalance(...).balance: a failed lookup is reported as 0
ReportedBalance(obs) == IF obs.balance < 0 THEN 0 ELSE obs.balance

calculateDynamicBuyAmount(obs) ==
    LET effectiveBalance == Max(0, ReportedBalance(obs) - FeeReserve)
    IN  IF effectiveBalance <= 0 THEN 0
        ELSE IF obs.curve = "failed" THEN calculateDirectBuyAmount(effectiveBalance, obs.r)
        ELSE IF obs.curve = "low" THEN Min(200000, effectiveBalance \div 2)
        ELSE IF obs.curve = "noEstimate" THEN calculateDirectBuyAmount(effectiveBalance, obs.r)
        ELSE Max(Min(Min((effectiveBalance * 7) \div 10, obs.maxSolForTarget), 5000000), 100000)

\* the observations the refill is explored with; revision 1 derives the rebuy
\* amount from the configured amount without any lookup
RebuyObservations(v) ==
    IF v = 1 THEN {NoObs}
    ELSE {Obs(-1, "ok", 1000000, 0),
          Obs(40000, "ok", 1000000, 0),
          Obs(58000, "failed", 1000000, 0),
          Obs(58000, "ok", 1000000, 0),
          Obs(2050000, "ok", 1000000, 0)}

\* a lookup of the observation failed
LookupFailed(obs) == obs.balance < 0 \/ obs.curve = "failed"

\* variant of the refill that never blacklists for the amount
RebuyTooSmallNever(v, obs) == FALSE

\* the refill blacklists the wallet for its rebuy amount (revision 2 only)
RebuyTooSmall(v, obs) == v = 2 /\ calculateDynamicBuyAmount(obs) < MinRebuyAmount

\* variant of the refill without the blacklist test
RefillCandidatesIgnoringBlacklist == {w \in usedSellWallets : w \in Range(selectedWallets)}

\* wallets the refill loop looks at after the blacklist test (lines 2653-2659)
RefillCandidates == {w \in usedSellWallets : w \notin blacklistedWallets /\ w \in Range(selectedWallets)}

\* variant of the limit test with > for >=
RefillAboveLimit == {w \in RefillCandidates : rebuyCountMap[w] > MaxRebuy(version)}

\* wallets the refill blacklists for having reached the rebuy limit
RefillAtLimit == {w \in RefillCandidates : rebuyCountMap[w] >= MaxRebuy(version)}

\* the pause check at the top of the loop lets the tick start
PauseCheckPassed == ~isPaused

\* the tick takes the next entry of the current cycle
TickNext ==
    /\ UNCHANGED <<runEnd, blacklistCause, sizedBelowMinimum, calc, tracker, pendingSends>>
    /\ pc = "top"
    /\ buyCounter < MaxBuys
    /\ PauseCheckPassed
    /\ walletCyclePosition < Len(walletCycle)
    /\ walletInfo' = walletCycle[walletCyclePosition + 1]
    /\ walletCyclePosition' = walletCyclePosition + 1
    /\ pc' = "delay"
    /\ event' = Ev("pick", walletCycle[walletCyclePosition + 1].wallet, FALSE, 0, 0, 0)
    /\ UNCHANGED <<version, selectedWallets, walletCycle, buyCounter, skippedWallets,
                   buysUntilNextSell, successfulBuyWallets, usedSellWallets, rebuyCountMap,
                   blacklistedWallets, isPaused, sellSeq, seller, boughtSinceUsed, soldWallets, faults>>

\* the cycle is exhausted: rebuild it from usedSellWallets, blacklisting on the
\* way, then stop (empty cycle) or shuffle and take the first entry
RefillWith(sizing) ==
    /\ pc = "top"
    /\ buyCounter < MaxBuys
    /\ PauseCheckPassed
    /\ walletCyclePosition >= Len(walletCycle)
    /\ LET tooSmall == {w \in DOMAIN sizing : RebuyTooSmall(version, sizing[w])}
            admitted == DOMAIN sizing \ tooSmall
            failed   == {w \in DOMAIN sizing : LookupFailed(sizing[w])}
        IN  /\ faults + Cardinality(failed) <= MaxFaults
            /\ faults' = faults + Cardinality(failed)
            /\ blacklistCause' =
                  [w \in Wallets |->
                      IF w \in RefillAtLimit THEN [atLimit |-> TRUE, obs |-> NoObs]
                      ELSE IF w \in tooSmall THEN [atLimit |-> FALSE, obs |-> sizing[w]]
                      ELSE blacklistCause[w]]
            /\ blacklistedWallets' = blacklistedWallets \cup RefillAtLimit \cup tooSmall
            /\ sizedBelowMinimum' = sizedBelowMinimum \cup
                  {w \in DOMAIN sizing :
                      version = 2 /\ calculateDynamicBuyAmount(sizing[w]) < MinRebuyAmount}
            /\ IF admitted = {}
               THEN /\ walletCycle' = <<>>
                    /\ pc' = "done"
                    /\ UNCHANGED <<walletCyclePosition, walletInfo>>
                    /\ event' = Ev("stop", NoWallet, FALSE, 0, 0, 0)
                    /\ runEnd' = RunFinally
               ELSE \E order \in Orderings(admitted) :
                    /\ walletCycle' = [i \in 1..Len(order) |->
                                          Entry(order[i], TRUE, rebuyCountMap[order[i]] + 1)]
                    /\ walletInfo' = walletCycle'[1]
                    /\ walletCyclePosition' = 1
                    /\ pc' = "delay"
                    /\ event' = Ev("refill", order[1], FALSE, 0, 0, 0)
                    /\ UNCHANGED runEnd
    /\ UNCHANGED <<version, selectedWallets, buyCounter, skippedWallets, buysUntilNextSell,
                   successfulBuyWallets, usedSellWallets, rebuyCountMap, isPaused,
                   sellSeq, seller, boughtSinceUsed, soldWallets, calc, tracker,
                   pendingSends>>

\* the refill of the wallet cycle; revision 2 sizes each candidate from what
\* it observes of the wallet and of the curve
TickRefill ==
    \E sizing \in [RefillCandidates \ RefillAtLimit -> RebuyObservations(version)] :
        RefillWith(sizing)

\* ------------------------------------------------ main loop: the buy step
\* revision 2: the sell sequence is over, humanbuy moves the threshold
EndSellSequence(bc, successfulSells) ==
    /\ buysUntilNextSell' \in
          IF successfulSells > 0
          THEN {bc + d : d \in NextSellPoints}
          ELSE {bc + NextAttempt(r) : r \in Draws}
    /\ pc' = "top"
    /\ sellSeq' = NoSeq

\* revision 1: the sell loop is over, humanbuy moves the threshold
EndSellSequenceV1(bc, successfulSells) ==
    /\ buysUntilNextSell' \in
          IF successfulSells > 0
          THEN {bc + NextSellAfterV1(r) : r \in Draws}
          ELSE {bc + RetryAfterV1}
    /\ pc' = "top"
    /\ sellSeq' = NoSeq

\* revision 2, executeSessionSells up to its loop: nothing available ends the
\* sequence as failed, otherwise the number of consecutive sells is drawn
StartSellSequence(bc, sbw, w) ==
    LET avail == AvailableWallets(sbw, usedSellWallets)
    IN  IF avail = {}
        THEN EndSellSequence(bc, 0)
        ELSE /\ \E c \in ConsecutiveSellCounts(Cardinality(avail)) :
                  sellSeq' = [count |-> c, i |-> 0, successfulSells |-> 0,
                              lastSellWallet |-> w, pausedAtStart |-> isPaused,
                              sold |-> 0, eligibleAtStart |-> Cardinality(avail)]
             /\ pc' = "sells"
             /\ UNCHANGED buysUntilNextSell

\* revision 1, humanbuy draws how many sells to execute
StartSellSequenceV1(sbw, w) ==
    /\ \E r \in Draws :
         sellSeq' = [count |-> SellsToExecuteV1(r), i |-> 0, successfulSells |-> 0,
                     lastSellWallet |-> w, pausedAtStart |-> isPaused, sold |-> 0,
                     eligibleAtStart |-> Cardinality(AvailableWallets(sbw, usedSellWallets))]
    /\ pc' = "sells"
    /\ UNCHANGED buysUntilNextSell

\* variant of the skip that leaves the main loop
SkipAndStop ==
    /\ skippedWallets' = skippedWallets + 1
    /\ pc' = "done"

\* a skipped wallet: the skip is counted and the loop goes on with the next tick
SkipToNextWallet ==
    /\ skippedWallets' = skippedWallets + 1
    /\ pc' = "top"

\* first balance check of the tick: the balance is too low for a buy
\* (revision 2: lookup failed or balance <= 0.05; revision 1: balance <= amount + 0.005)
SkipLowBalance ==
    /\ UNCHANGED <<runEnd, blacklistCause, sizedBelowMinimum, calc, tracker, pendingSends>>
    /\ pc = "delay"
    /\ faults < MaxFaults
    /\ faults' = faults + 1
    /\ SkipToNextWallet
    /\ event' = Ev("skipBalance", walletInfo.wallet, FALSE, 0, 0, 0)
    /\ UNCHANGED <<version, selectedWallets, walletCycle, walletCyclePosition, walletInfo,
                   buyCounter, buysUntilNextSell, successfulBuyWallets, usedSellWallets,
                   rebuyCountMap, blacklistedWallets, isPaused, sellSeq, seller,
                   boughtSinceUsed, soldWallets>>

\* executeBuy returns {success: false}: its own balance check fails (nothing is
\* sent), or building the transaction, the send or the 5 s timeout fails
BuyFailed ==
    /\ UNCHANGED <<runEnd, blacklistCause, sizedBelowMinimum, calc, tracker>>
    /\ pc = "delay"
    /\ faults < MaxFaults
    /\ faults' = faults + 1
    /\ \E sent \in BOOLEAN, timedOut \in BOOLEAN :
         /\ timedOut => sent
         /\ event' = Ev("buyFailed", walletInfo.wallet, sent, 0, 0, 0)
         /\ pendingSends' = pendingSends + (IF timedOut THEN 1 ELSE 0)
    /\ SkipToNextWallet
    /\ UNCHANGED <<version, selectedWallets, walletCycle, walletCyclePosition, walletInfo,
                   buyCounter, buysUntilNextSell, successfulBuyWallets, usedSellWallets,
                   rebuyCountMap, blacklistedWallets, isPaused, sellSeq, seller,
                   boughtSinceUsed, soldWallets>>

\* revision 1: connection.getBalance rejects in humanbuy or in executeBuy,
\* outside any inner try; the catch of the tick counts a skip
BuyThrewV1 ==
    /\ UNCHANGED <<runEnd, blacklistCause, sizedBelowMinimum, calc, tracker, pendingSends>>
    /\ pc = "delay"
    /\ version = 1
    /\ faults < MaxFaults
    /\ faults' = faults + 1
    /\ event' = Ev("buyThrew", walletInfo.wallet, FALSE, 0, 0, 0)
    /\ SkipToNextWallet
    /\ UNCHANGED <<version, selectedWallets, walletCycle, walletCyclePosition, walletInfo,
                   buyCounter, buysUntilNextSell, successfulBuyWallets, usedSellWallets,
                   rebuyCountMap, blacklistedWallets, isPaused, sellSeq, seller,
                   boughtSinceUsed, soldWallets>>

\* variant of the bookkeeping that adds the entry's count to the stored one
RecordRebuyAccumulating(entry) ==
    IF entry.isRebuy
    THEN [rebuyCountMap EXCEPT ![entry.wallet] = @ + entry.rebuyCount]
    ELSE rebuyCountMap

\* rebuyCountMap.set(wallet.pubKey, rebuyCount) for a rebuy entry
\* variant that forgets to count the rebuy
RecordRebuyForgotten(entry) == rebuyCountMap

RecordRebuy(entry) ==
    IF entry.isRebuy
    THEN [rebuyCountMap EXCEPT ![entry.wallet] = entry.rebuyCount]
    ELSE rebuyCountMap

\* the sell trigger of humanbuy
SellTriggered(bc) == bc >= buysUntilNextSell

\* executeBuy returns success (acct: the token account was found right after
\* the send); the ledger is updated and, when the counter reaches the
\* threshold, a sell sequence starts
BuySucceeded ==
    /\ UNCHANGED <<runEnd, blacklistCause, sizedBelowMinimum, calc, tracker, pendingSends>>
    /\ pc = "delay"
    /\ \E acct \in BOOLEAN :
         LET w   == walletInfo.wallet
             bc  == buyCounter + 1
             sbw == MapSet(successfulBuyWallets, w, acct)
         IN  /\ acct \/ faults < MaxFaults
             /\ faults' = IF acct THEN faults ELSE faults + 1
             /\ buyCounter' = bc
             /\ rebuyCountMap' = RecordRebuy(walletInfo)
             /\ successfulBuyWallets' = sbw
             /\ boughtSinceUsed' = boughtSinceUsed \cup {w}
             /\ UNCHANGED soldWallets
             /\ event' = Ev("buyOk", w, TRUE, 0, 0, 0)
             /\ IF SellTriggered(bc)
                THEN IF version = 1 THEN StartSellSequenceV1(sbw, w)
                     ELSE StartSellSequence(bc, sbw, w)
                ELSE /\ pc' = "top"
                     /\ UNCHANGED <<buysUntilNextSell, sellSeq>>
    /\ UNCHANGED <<version, selectedWallets, walletCycle, walletCyclePosition, walletInfo,
                   skippedWallets, usedSellWallets, blacklistedWallets, isPaused, seller>>

\* --------------------------------------------------------- sell sequence
\* what the token-balance lookup of executeWalletSell can report:
\* -1 = the balance could not be read, otherwise the reported amount
TokenObs == (-1)..MaxTokenBalance

\* revision 2, amount handed to humanSellTX for a reported balance:
\* parseInt(amount) <= 0 or an unreadable balance is turned into "1"
SellAmount(reported) == IF reported <= 0 THEN 1 ELSE reported

\* revision 2, executeWalletSell up to the submission, for a wallet whose
\* tokenAccountPubKey is known or not: the set of [abort, amount, reported];
\* abort = the token account could not be created and the function returns false
PrepareSell(acctKnown) ==
    LET withBalance == {[abort |-> FALSE, amount |-> SellAmount(r), reported |-> r] : r \in TokenObs}
        created     == {[abort |-> FALSE, amount |-> 1, reported |-> -1]}
        createFail  == {[abort |-> TRUE, amount |-> 0, reported |-> -1]}
    IN  IF acctKnown THEN withBalance
        ELSE withBalance \cup created \cup createFail

\* revision 1, executeWalletSell up to the submission: no token account, an
\* unreadable balance or a balance <= 0 leave the try block before humanSellTX
PrepareSellV1(acctKnown) ==
    LET withBalance == {[abort |-> r <= 0, amount |-> IF r <= 0 THEN 0 ELSE r, reported |-> r] : r \in TokenObs}
        noAccount   == {[abort |-> TRUE, amount |-> 0, reported |-> -1]}
    IN  IF acctKnown THEN withBalance
        ELSE withBalance \cup noAccount

\* what executeSessionSell does with the ledger it is given: a seller among
\* the eligible wallets, else the last used wallet as fallback, else none
SellerChoices(sbw, used, lastUsed) ==
    LET el == EligibleWallets(sbw, used, lastUsed)
    IN  IF el # {} THEN {[wallet |-> s, viaFallback |-> FALSE] : s \in el}
        ELSE IF FallbackApplies(sbw, used, lastUsed)
             THEN {[wallet |-> lastUsed, viaFallback |-> TRUE]}
             ELSE {}

\* revision 2, executeSessionSell called from the loop of executeSessionSells
SelectSeller ==
    /\ UNCHANGED <<runEnd, blacklistCause, sizedBelowMinimum, calc, tracker, pendingSends>>
    /\ pc = "sells"
    /\ version = 2
    /\ LET choices == SellerChoices(successfulBuyWallets, usedSellWallets, sellSeq.lastSellWallet)
       IN  IF choices # {}
           THEN /\ seller' \in choices
                /\ event' = Ev("select", seller'.wallet, FALSE, 0, 0, sellSeq.i)
                /\ pc' = "selling"
                /\ UNCHANGED <<buysUntilNextSell, sellSeq>>
           ELSE /\ EndSellSequence(buyCounter, sellSeq.successfulSells)
                /\ event' = Ev("noSeller", NoWallet, FALSE, 0, 0, sellSeq.i)
                /\ UNCHANGED seller
    /\ UNCHANGED <<version, selectedWallets, walletCycle, walletCyclePosition, walletInfo,
                   buyCounter, skippedWallets, successfulBuyWallets, usedSellWallets,
                   rebuyCountMap, blacklistedWallets, isPaused, boughtSinceUsed, soldWallets, faults>>

\* revision 1, one round of the sell loop of humanbuy up to the sell itself
SelectSellerV1 ==
    /\ UNCHANGED <<runEnd, blacklistCause, sizedBelowMinimum, calc, tracker, pendingSends>>
    /\ pc = "sells"
    /\ version = 1
    /\ LET choices == SellerChoices(successfulBuyWallets, usedSellWallets, sellSeq.lastSellWallet)
       IN  IF DOMAIN successfulBuyWallets = {}
           THEN /\ EndSellSequenceV1(buyCounter, sellSeq.successfulSells)
                /\ event' = Ev("noWallets", NoWallet, FALSE, 0, 0, sellSeq.i)
                /\ UNCHANGED seller
           ELSE IF choices # {}
           THEN /\ seller' \in choices
                /\ event' = Ev("select", seller'.wallet, FALSE, 0, 0, sellSeq.i)
                /\ pc' = "selling"
                /\ UNCHANGED <<buysUntilNextSell, sellSeq>>
           ELSE /\ event' = Ev("noSeller", NoWallet, FALSE, 0, 0, sellSeq.i)
                /\ UNCHANGED seller
                /\ IF sellSeq.i < sellSeq.count - 1
                   THEN /\ sellSeq' = [sellSeq EXCEPT !.i = @ + 1]
                        /\ UNCHANGED <<pc, buysUntilNextSell>>
                   ELSE EndSellSequenceV1(buyCounter, sellSeq.successfulSells)
    /\ UNCHANGED <<version, selectedWallets, walletCycle, walletCyclePosition, walletInfo,
                   buyCounter, skippedWallets, successfulBuyWallets, usedSellWallets,
                   rebuyCountMap, blacklistedWallets, isPaused, boughtSinceUsed, soldWallets, faults>>

\* revision 2, executeSessionSells after the result of one sell: count it and
\* go on after the inter-sell delay, or leave the loop
AfterSell(counted) ==
    IF counted
    THEN IF sellSeq.i < sellSeq.count - 1
         THEN /\ sellSeq' = [sellSeq EXCEPT !.i = @ + 1, !.successfulSells = @ + 1,
                                            !.lastSellWallet = seller.wallet,
                                            !.sold = @ + 1]
              /\ pc' = "sells"
              /\ UNCHANGED buysUntilNextSell
         ELSE EndSellSequence(buyCounter, sellSeq.successfulSells + 1)
    ELSE EndSellSequence(buyCounter, sellSeq.successfulSells)

\* revision 1, the sell loop of humanbuy after a sell that returned true
AfterSellV1 ==
    IF sellSeq.i < sellSeq.count - 1
    THEN /\ sellSeq' = [sellSeq EXCEPT !.i = @ + 1, !.successfulSells = @ + 1,
                                       !.sold = @ + 1]
         /\ pc' = "sells"
         /\ UNCHANGED buysUntilNextSell
    ELSE EndSellSequenceV1(buyCounter, sellSeq.successfulSells + 1)

\* variant in which executeSessionSells never sees a success
ReportedSuccessNever(sel) == FALSE

\* what executeSessionSells sees of a sell that went through: the fallback
\* branch of executeSessionSell returns the bare boolean of executeWalletSell,
\* whose .success is undefined
ReportedSuccess(sel) == ~sel.viaFallback

\* revision 2, executeWalletSell: the sell is submitted and the send resolves in time
WalletSellSucceeded ==
    /\ UNCHANGED <<runEnd, blacklistCause, sizedBelowMinimum, calc, tracker, pendingSends>>
    /\ pc = "selling"
    /\ version = 2
    /\ \E p \in PrepareSell(successfulBuyWallets[seller.wallet]) :
         /\ ~p.abort
         /\ event' = Ev("sellOk", seller.wallet, TRUE, p.amount, p.reported, sellSeq.i)
    /\ usedSellWallets' = usedSellWallets \cup {seller.wallet}
    /\ successfulBuyWallets' = MapDelete(successfulBuyWallets, seller.wallet)
    /\ boughtSinceUsed' = boughtSinceUsed \ {seller.wallet}
    /\ soldWallets' = soldWallets \cup {seller.wallet}
    /\ AfterSell(ReportedSuccess(seller))
    /\ seller' = NoSeller
    /\ UNCHANGED <<version, selectedWallets, walletCycle, walletCyclePosition, walletInfo,
                   buyCounter, skippedWallets, rebuyCountMap, blacklistedWallets, isPaused,
                   faults>>

\* revision 2, executeWalletSell returns false: the token account could not be
\* created, building the transaction threw (nothing submitted), or the send
\* failed or timed out (submitted)
WalletSellFailed ==
    /\ UNCHANGED <<runEnd, blacklistCause, sizedBelowMinimum, calc, tracker>>
    /\ pc = "selling"
    /\ version = 2
    /\ faults < MaxFaults
    /\ faults' = faults + 1
    /\ \E p \in PrepareSell(successfulBuyWallets[seller.wallet]), sent \in BOOLEAN, timedOut \in BOOLEAN :
         /\ p.abort => ~sent
         /\ timedOut => sent
         /\ pendingSends' = pendingSends + (IF timedOut THEN 1 ELSE 0)
         /\ event' = Ev("sellFailed", seller.wallet, sent,
                        IF sent THEN p.amount ELSE 0, p.reported, sellSeq.i)
    /\ usedSellWallets' = usedSellWallets \cup {seller.wallet}
    /\ boughtSinceUsed' = boughtSinceUsed \ {seller.wallet}
    /\ UNCHANGED soldWallets
    /\ AfterSell(FALSE)
    /\ seller' = NoSeller
    /\ UNCHANGED <<version, selectedWallets, walletCycle, walletCyclePosition, walletInfo,
                   buyCounter, skippedWallets, successfulBuyWallets, rebuyCountMap,
                   blacklistedWallets, isPaused>>

\* revision 1, executeWalletSell: the sell is submitted and the send resolves in time
WalletSellSucceededV1 ==
    /\ UNCHANGED <<runEnd, blacklistCause, sizedBelowMinimum, calc, tracker, pendingSends>>
    /\ pc = "selling"
    /\ version = 1
    /\ \E p \in PrepareSellV1(successfulBuyWallets[seller.wallet]) :
         /\ ~p.abort
         /\ event' = Ev("sellOk", seller.wallet, TRUE, p.amount, p.reported, sellSeq.i)
    /\ usedSellWallets' = usedSellWallets \cup {seller.wallet}
    /\ successfulBuyWallets' = MapDelete(successfulBuyWallets, seller.wallet)
    /\ boughtSinceUsed' = boughtSinceUsed \ {seller.wallet}
    /\ soldWallets' = soldWallets \cup {seller.wallet}
    /\ AfterSellV1
    /\ seller' = NoSeller
    /\ UNCHANGED <<version, selectedWallets, walletCycle, walletCyclePosition, walletInfo,
                   buyCounter, skippedWallets, rebuyCountMap, blacklistedWallets, isPaused,
                   faults>>

\* revision 1, any failure inside executeWalletSell: the wallet is marked used,
\* then the retry reads lastUsedWalletPubKey / eligibleWallets, which are not
\* in scope: the ReferenceError leaves executeSessionSell and the sell loop
\* and is caught by the catch of the tick, which counts a skip
WalletSellThrewV1 ==
    /\ UNCHANGED <<runEnd, blacklistCause, sizedBelowMinimum, calc, tracker>>
    /\ pc = "selling"
    /\ version = 1
    /\ faults < MaxFaults
    /\ faults' = faults + 1
    /\ \E p \in PrepareSellV1(successfulBuyWallets[seller.wallet]), sent \in BOOLEAN, timedOut \in BOOLEAN :
         /\ p.abort => ~sent
         /\ timedOut => sent
         /\ pendingSends' = pendingSends + (IF timedOut THEN 1 ELSE 0)
         /\ event' = Ev("sellThrew", seller.wallet, sent,
                        IF sent THEN p.amount ELSE 0, p.reported, sellSeq.i)
    /\ usedSellWallets' = usedSellWallets \cup {seller.wallet}
    /\ boughtSinceUsed' = boughtSinceUsed \ {seller.wallet}
    /\ UNCHANGED soldWallets
    /\ skippedWallets' = skippedWallets + 1
    /\ pc' = "top"
    /\ sellSeq' = NoSeq
    /\ seller' = NoSeller
    /\ UNCHANGED <<version, selectedWallets, walletCycle, walletCyclePosition, walletInfo,
                   buyCounter, buysUntilNextSell, successfulBuyWallets, rebuyCountMap,
                   blacklistedWallets, isPaused>>

\* ------------------------------------------------------------------- Next
\* a send that lost the race against its timeout resolves or is rejected
\* later; nothing awaits it any more
AbandonedSendSettles ==
    /\ pendingSends > 0
    /\ pendingSends' = pendingSends - 1
    /\ UNCHANGED <<version, selectedWallets, walletCycle, walletCyclePosition, walletInfo,
                   buyCounter, skippedWallets, buysUntilNextSell, successfulBuyWallets,
                   usedSellWallets, rebuyCountMap, blacklistedWallets, isPaused, pc,
                   sellSeq, seller, event, boughtSinceUsed, soldWallets, runEnd,
                   blacklistCause, sizedBelowMinimum, faults, calc, tracker>>

Next ==
    \/ TogglePause
    \/ TickNext
    \/ TickRefill
    \/ SkipLowBalance
    \/ BuyFailed
    \/ BuyThrewV1
    \/ BuySucceeded
    \/ SelectSeller
    \/ SelectSellerV1
    \/ WalletSellSucceeded
    \/ WalletSellFailed
    \/ WalletSellSucceededV1
    \/ WalletSellThrewV1
    \/ AbandonedSendSettles

Spec == Init /\ [][Next]_vars

\* a run in which every buy attempt and every sell attempt succeeds, every
\* lookup answers and every rebuy is sized at the minimum or above
NoFailure == faults' = 0 /\ sizedBelowMinimum' = {}

\* the steps of the main loop in such a run
LoopStepAllSucceed ==
    \/ NoFailure /\ TickNext
    \/ NoFailure /\ TickRefill
    \/ NoFailure /\ BuySucceeded
    \/ NoFailure /\ SelectSeller
    \/ NoFailure /\ SelectSellerV1
    \/ NoFailure /\ WalletSellSucceeded
    \/ NoFailure /\ WalletSellSucceededV1

NextAllSucceed ==
    \/ TogglePause
    \/ LoopStepAllSucceed

\* the main loop is sequential code: whenever it can take a step it takes one
\* (the hotkey is the user's and is under no obligation)
SpecAllSucceed == Init /\ [][NextAllSucceed]_vars /\ WF_vars(LoopStepAllSucceed)

\* ------------------------------------------- a run with depleted wallets
\* what the refill of revision 2 can observe of a wallet that cannot pay for
\* the amount sized for it (revision 1 looks nothing up)
DepletedObservations(v) ==
    IF v = 1 THEN {NoObs}
    ELSE {obs \in RebuyObservations(v) :
            /\ ~LookupFailed(obs)
            /\ Max(0, obs.balance - FeeReserve) < Max(calculateDynamicBuyAmount(obs), 1)}

\* the refill when every wallet that has sold is depleted
TickRefillDepleted ==
    \E sizing \in [RefillCandidates \ RefillAtLimit -> DepletedObservations(version)] :
        RefillWith(sizing)

\* skippedWallets is followed up to this count
MaxSkipped == 2

\* the tick of a depleted wallet: revision 1 skips it at its balance test,
\* revision 2 at the balance test of the tick or at that of executeBuy
SkipDepleted ==
    /\ pc = "delay"
    /\ walletInfo.isRebuy
    /\ skippedWallets' = IF skippedWallets < MaxSkipped THEN skippedWallets + 1
                         ELSE skippedWallets
    /\ pc' = "top"
    /\ event' = Ev("skipBalance", walletInfo.wallet, FALSE, 0, 0, 0)
    /\ UNCHANGED <<version, selectedWallets, walletCycle, walletCyclePosition, walletInfo,
                   buyCounter, buysUntilNextSell, successfulBuyWallets, usedSellWallets,
                   rebuyCountMap, blacklistedWallets, isPaused, sellSeq, seller,
                   boughtSinceUsed, soldWallets, faults, runEnd, blacklistCause,
                   sizedBelowMinimum, calc, tracker, pendingSends>>

\* first buys and sells succeed; no wallet can pay for a rebuy
LoopStepDepleted ==
    \/ TickNext
    \/ TickRefillDepleted
    \/ SkipDepleted
    \/ BuySucceeded /\ ~walletInfo.isRebuy /\ faults' = 0
    \/ SelectSeller /\ faults' = 0
    \/ SelectSellerV1 /\ faults' = 0
    \/ WalletSellSucceeded /\ faults' = 0
    \/ WalletSellSucceededV1 /\ faults' = 0

SpecDepleted == Init /\ [][LoopStepDepleted]_vars /\ WF_vars(LoopStepDepleted)

\* ------------------------------------------- the functions on their own
\* each behaviour of SpecCalc is one call of one function on drawn arguments
\* the reserves argument of buyQuote: the decoded bonding curve, or nothing
Reserves(vSol, vToken, rToken) ==
    [present |-> TRUE, virtualSolReserves |-> vSol, virtualTokenReserves |-> vToken,
     realTokenReserves |-> rToken]

NoReserves == [present |-> FALSE, virtualSolReserves |-> 0, virtualTokenReserves |-> 0,
               realTokenReserves |-> 0]

ReserveStates ==
    {Reserves(vSol, vToken, rToken) :
        vSol \in 0..MaxReserve, vToken \in 0..MaxReserve, rToken \in 0..MaxReserve}
      \cup {NoReserves}

Returned(n) == [threw |-> FALSE, tokens |-> n]
Threw == [threw |-> TRUE, tokens |-> 0]

\* variant of buyQuote whose first test looks at the amount only
buyQuoteUnguarded(solLamportsBN, reserves) ==
    IF solLamportsBN = 0 THEN Returned(0)
    ELSE IF ~reserves.present THEN Threw
    ELSE LET product         == reserves.virtualSolReserves * reserves.virtualTokenReserves
             newSolReserves  == reserves.virtualSolReserves + solLamportsBN
             newTokenAmount  == (product \div newSolReserves) + 1
             tokensToReceive == reserves.virtualTokenReserves - newTokenAmount
         IN  IF newSolReserves = 0 THEN Threw
             ELSE Returned(Min(tokensToReceive, reserves.realTokenReserves))

\* buyQuote(solLamportsBN, reserves) on bn.js integers; reading a field of a
\* missing reserves object and a division by zero raise
buyQuote(solLamportsBN, reserves) ==
    IF solLamportsBN = 0 \/ ~reserves.present THEN Returned(0)
    ELSE IF ~reserves.present THEN Threw
    ELSE LET product         == reserves.virtualSolReserves * reserves.virtualTokenReserves
             newSolReserves  == reserves.virtualSolReserves + solLamportsBN
             newTokenAmount  == (product \div newSolReserves) + 1
             tokensToReceive == reserves.virtualTokenReserves - newTokenAmount
         IN  IF newSolReserves = 0 THEN Threw
             ELSE Returned(Min(tokensToReceive, reserves.realTokenReserves))

\* buyQuote is called for two amounts a <= b on the same reserves
ApplyBuyQuote ==
    /\ calc = NoCalc
    /\ \E reserves \in ReserveStates, a \in 0..MaxLamports, b \in 0..MaxLamports :
         /\ a <= b
         /\ LET qa == buyQuote(a, reserves)
                qb == buyQuote(b, reserves)
            IN  calc' = [fn |-> "buyQuote",
                         args |-> <<a, b, reserves.virtualSolReserves,
                                    reserves.virtualTokenReserves,
                                    reserves.realTokenReserves,
                                    IF reserves.present THEN 1 ELSE 0>>,
                         out |-> <<qa.tokens, qb.tokens>>,
                         threw |-> <<qa.threw, qb.threw>>]
    /\ UNCHANGED <<humanbuyVars, tracker>>

\* determineNextSellPoint is called with its three draws
ApplyDetermineNextSellPoint ==
    /\ calc = NoCalc
    /\ \E rand \in FineDraws, r1 \in FineDraws, r2 \in FineDraws :
         calc' = [fn |-> "determineNextSellPoint",
                  args |-> <<rand, r1, r2>>,
                  out |-> <<determineNextSellPoint(rand, r1, r2)>>,
                  threw |-> <<FALSE>>]
    /\ UNCHANGED <<humanbuyVars, tracker>>

\* revision 1, the allocation table buyAmounts.json: what buyAmounts[walletKey]
\* yields for a wallet; amounts in millionths of SOL
AllocationEntries ==
    {[kind |-> "undefined", value |-> 0], [kind |-> "null", value |-> 0],
     [kind |-> "number", value |-> 50000], [kind |-> "number", value |-> 200000]}

\* config.minBuy
ConfigMinBuys == {10000, 100000}

\* balances reported by connection.getBalance
SolBalances == {0, 12000, 100000, 1000000}

\* 0.005 SOL kept for fees by the balance test of revision 1
FeeMarginV1 == 5000

\* revision 1, humanbuy: the buy amount a wallet is given from the table
ConfiguredBuyAmount(entry, minBuy) ==
    IF entry.kind = "number" THEN entry.value ELSE minBuy

\* revision 1, the tick and executeBuy: the buy is submitted unless the
\* balance is too low for the amount
BuySubmittedV1(balance, buyAmount) == ~(balance <= buyAmount + FeeMarginV1)

EntryCode(entry) ==
    IF entry.kind = "undefined" THEN 0 ELSE IF entry.kind = "null" THEN 1 ELSE 2

\* revision 1: a wallet gets its amount from the table and is processed by a tick
ApplyConfiguredBuy ==
    /\ calc = NoCalc
    /\ \E entry \in AllocationEntries, minBuy \in ConfigMinBuys, balance \in SolBalances :
         LET buyAmount == ConfiguredBuyAmount(entry, minBuy)
         IN  calc' = [fn |-> "configuredBuy",
                      args |-> <<EntryCode(entry), entry.value, minBuy, balance>>,
                      out |-> <<buyAmount, IF BuySubmittedV1(balance, buyAmount) THEN 1 ELSE 0>>,
                      threw |-> <<FALSE>>]
    /\ UNCHANGED <<humanbuyVars, tracker>>

\* revision 2: what a tick can observe of its wallet and of the curve
TickObservations ==
    {Obs(b, c, 1000000, r) :
        b \in {-1, 40000, 58000, 70000, 150000, 2050000, 10050000},
        c \in {"ok", "failed", "low", "noEstimate"},
        r \in {0, 500, 999}}

CurveCode(curve) ==
    IF curve = "ok" THEN 1 ELSE IF curve = "failed" THEN 2
    ELSE IF curve = "low" THEN 3 ELSE 4

\* checkWalletBalance(connection, wallet, requiredAmount).sufficient
SufficientBalance(obs, requiredAmount) ==
    Max(0, ReportedBalance(obs) - FeeReserve) >= requiredAmount

\* revision 2, one tick up to the send of its buy: the balance test of the
\* tick, the sizing, the balance test of executeBuy; [amount, submitted]
TickSizing(obs) ==
    IF ReportedBalance(obs) <= FeeReserve
    THEN [computed |-> FALSE, amount |-> 0, submitted |-> FALSE]
    ELSE LET calculatedBuyAmount == calculateDynamicBuyAmount(obs)
         IN  [computed |-> TRUE, amount |-> calculatedBuyAmount,
              submitted |-> SufficientBalance(obs, calculatedBuyAmount)]

\* revision 2: a tick sizes the buy of its wallet and calls executeBuy
ApplyTickSizing ==
    /\ calc = NoCalc
    /\ \E obs \in TickObservations :
         LET t == TickSizing(obs)
         IN  calc' = [fn |-> "tickSizing",
                      args |-> <<obs.balance, obs.r, CurveCode(obs.curve)>>,
                      out |-> <<IF t.computed THEN 1 ELSE 0, t.amount,
                                IF t.submitted THEN 1 ELSE 0>>,
                      threw |-> <<FALSE>>]
    /\ UNCHANGED <<humanbuyVars, tracker>>

\* spendable balances calculateDirectBuyAmount is called with, in millionths
\* of SOL: around 0.1 / 0.9, 0.1 / 0.6, 1, 5 and beyond 5 / 0.4
EffectiveBalances ==
    {8000, 100000, 111112, 150000, 166667, 500000, 999999, 1000000, 1000001, 3000000,
     5000000, 5000001, 8000000, 12500000, 20000000}

\* calculateDirectBuyAmount is called for a spendable balance
ApplyCalculateDirectBuyAmount ==
    /\ calc = NoCalc
    /\ \E effectiveBalance \in EffectiveBalances, r \in FineDraws :
         calc' = [fn |-> "calculateDirectBuyAmount",
                  args |-> <<effectiveBalance, r>>,
                  out |-> <<calculateDirectBuyAmount(effectiveBalance, r)>>,
                  threw |-> <<FALSE>>]
    /\ UNCHANGED <<humanbuyVars, tracker>>

\* calculateDynamicBuyAmount, the estimate: tokens are in thousands; the quote
\* of humanBuyAmount for the test amount is an input
MAX_TARGET_TOKENS == 29000
HardCap == 5000000

\* quotes humanBuyAmount returns for the test amount, in thousands of tokens
EstimatedTokens == {0, 3500, 35000, 40000, 70000}

DynamicBalances == {-1, 40000, 58000, 70000, 150000, 250000, 2050000, 10050000}

testSolAmount(effectiveBalance) == Min(1000000, effectiveBalance \div 2)

\* MAX_TARGET_TOKENS / ratio with ratio = estimatedTokens / testSolAmount; a
\* ratio of 0 gives Infinity, which leaves the hard cap as the smallest operand
maxSolForTarget(effectiveBalance, estimatedTokens) ==
    IF estimatedTokens = 0 THEN HardCap
    ELSE MulDiv(testSolAmount(effectiveBalance), MAX_TARGET_TOKENS, estimatedTokens)

\* what one call of calculateDynamicBuyAmount observes
DynamicObservation(balance, curve, estimatedTokens, r) ==
    Obs(balance, curve,
        maxSolForTarget(Max(0, (IF balance < 0 THEN 0 ELSE balance) - FeeReserve),
                        estimatedTokens),
        r)

\* calculateDynamicBuyAmount is called for a wallet
ApplyCalculateDynamicBuyAmount ==
    /\ calc = NoCalc
    /\ \E balance \in DynamicBalances, curve \in {"ok", "failed", "low", "noEstimate"},
          estimatedTokens \in EstimatedTokens, r \in {0, 500, 999} :
         LET obs == DynamicObservation(balance, curve, estimatedTokens, r)
         IN  calc' = [fn |-> "calculateDynamicBuyAmount",
                      args |-> <<balance, CurveCode(curve), estimatedTokens, r>>,
                      out |-> <<calculateDynamicBuyAmount(obs), obs.maxSolForTarget,
                                Max(0, ReportedBalance(obs) - FeeReserve)>>,
                      threw |-> <<FALSE>>]
    /\ UNCHANGED <<humanbuyVars, tracker>>

\* ----------------------------------------------------------- rapidBuyMode2
\* number of wallets selected for rapidBuyMode2 (the prompt insists on two)
MaxRapidWallets == 5

\* the two delays entered, in ms; -1 stands for an entry parseInt turns into NaN
\* or a negative number
DelayInputs == {-1, 0, 3, 7, 10}

\* what happens to one wallet: bought, skipped for a missing allocation or an
\* insufficient balance (continue), or failed (caught)
RapidOutcomes == {"bought", "noAllocation", "insufficient", "failed"}

\* variant that interpolates over the number of intervals
delayMsOverIntervals(idx, totalWallets, minDelay, maxDelay) ==
    LET intervals == totalWallets - 1
        d == IF intervals > 1
             THEN maxDelay - (idx * (maxDelay - minDelay) + intervals - 1) \div intervals
             ELSE minDelay
    IN  IF d < minDelay THEN minDelay ELSE IF d > maxDelay THEN maxDelay ELSE d

\* the delay computed after the wallet at position idx (0-based):
\* Math.floor(maxDelay - fraction * (maxDelay - minDelay)), fraction = idx / (intervals - 1)
delayMs(idx, totalWallets, minDelay, maxDelay) ==
    LET intervals == totalWallets - 1
        d == IF intervals > 1
             THEN maxDelay - (idx * (maxDelay - minDelay) + intervals - 2) \div (intervals - 1)
             ELSE minDelay
    IN  IF d < minDelay THEN minDelay ELSE IF d > maxDelay THEN maxDelay ELSE d

\* names the statement after the loop of rapidBuyMode2 can resolve: those
\* declared at the level of the function or of the module
RapidBuyMode2Scope ==
    {"tokenCA", "rl", "config", "connection", "slippage", "wallets", "selectedWallets",
     "minDelay", "maxDelay", "totalWallets", "intervals", "buyAmountsData", "isPaused"}

\* names read by the console.log that follows the loop; they are declared
\* inside the try block of the loop body
AfterLoopReads == {"walletKey", "buyAmountSOL", "buyAmountLamports"}

\* rapidBuyMode2 for the outcomes of the selected wallets and the two delays
\* entered: the delay computed after each wallet but the last, whether it is
\* waited for (continue leaves the loop body before the delay), how the call ends
rapidBuyMode2(outcomes, minDelay, maxDelay) ==
    LET totalWallets == Len(outcomes)
    IN  IF minDelay < 0 \/ maxDelay < 0 \/ maxDelay < minDelay
        THEN [processed |-> 0, delays |-> <<>>, waited |-> <<>>, threw |-> FALSE]
        ELSE [processed |-> totalWallets,
              delays |-> [i \in 1..(totalWallets - 1) |->
                             delayMs(i - 1, totalWallets, minDelay, maxDelay)],
              waited |-> [i \in 1..(totalWallets - 1) |->
                             outcomes[i] \in {"bought", "failed"}],
              threw |-> ~(AfterLoopReads \subseteq RapidBuyMode2Scope)]

\* menu action 9: handleBuyMenu awaits rapidBuyMode2 without a try, and so do
\* handleAction and the loop of main; main().catch ends the program
MenuLoopRunsAfter(threw) == ~threw

ApplyRapidBuyMode2 ==
    /\ calc = NoCalc
    /\ \E n \in 2..MaxRapidWallets, minDelay \in DelayInputs, maxDelay \in DelayInputs :
         \E outcomes \in [1..n -> RapidOutcomes] :
            LET r == rapidBuyMode2(outcomes, minDelay, maxDelay)
            IN  calc' = [fn |-> "rapidBuyMode2",
                         args |-> <<n, minDelay, maxDelay, outcomes>>,
                         out |-> <<r.processed, r.delays, r.waited,
                                   MenuLoopRunsAfter(r.threw)>>,
                         threw |-> <<r.threw>>]
    /\ UNCHANGED <<humanbuyVars, tracker>>

\* ----------------------------------------------------------- token tracker
\* rows kept in the display table (20 in the code), signatures a poll can
\* return at once, and signatures followed in all
MaxTableRows == 3
MaxBatch == 3
MaxSignatures == 6

\* validTransactions.sort((a, b) => b.time - a.time): newest first
RECURSIVE NewestFirst(_)
NewestFirst(S) ==
    IF S = {} THEN <<>>
    ELSE LET newest == CHOOSE t \in S : \A u \in S : u <= t
         IN  <<newest>> \o NewestFirst(S \ {newest})

\* while (table.length > 20) table.splice(table.length - 1, 1): the last rows go
RECURSIVE TrimTable(_)
TrimTable(rows) ==
    IF Len(rows) <= MaxTableRows THEN rows
    ELSE TrimTable(SubSeq(rows, 1, Len(rows) - 1))

\* batchProcessTransactions for n signatures not seen before, of which those
\* in validNew are buys above the threshold by foreign wallets
batchProcessTransactions(n, validNew) ==
    [table |-> IF validNew = {} THEN tracker.table
               ELSE TrimTable(tracker.table \o NewestFirst(validNew)),
     seen |-> tracker.seen + n,
     valid |-> tracker.valid \cup validNew]

\* the initial load or a poll of adaptivePolling that returns signatures
ProcessBatch ==
    /\ \E n \in 1..MaxBatch :
         /\ tracker.seen + n <= MaxSignatures
         /\ \E validNew \in SUBSET ((tracker.seen + 1)..(tracker.seen + n)) :
              tracker' = batchProcessTransactions(n, validNew)
    /\ UNCHANGED <<humanbuyVars, calc>>

SpecTracker == Init /\ [][ProcessBatch]_vars

\* ------------------------------------------------- menu action Human Buy
DefaultMaxDelay == 10000
DefaultMinDelay == 5000

\* how handleBuyMenu declares maxDelay and minDelay
DelayBinding == "const"

\* what parseInt made of the two entries: -1 stands for NaN or a negative number
MenuDelayInputs == {-1, 0, 5000, 10000, 20000}

\* menu action 8 from the delays entered to the call of humanbuy; assigning
\* to a const binding raises a TypeError
humanBuyMenu(maxDelay, minDelay) ==
    IF maxDelay < 0 \/ minDelay < 0 \/ minDelay > maxDelay
    THEN IF DelayBinding = "const"
         THEN [started |-> FALSE, maxDelay |-> maxDelay, minDelay |-> minDelay, threw |-> TRUE]
         ELSE [started |-> TRUE, maxDelay |-> DefaultMaxDelay, minDelay |-> DefaultMinDelay,
               threw |-> FALSE]
    ELSE [started |-> TRUE, maxDelay |-> maxDelay, minDelay |-> minDelay, threw |-> FALSE]

ApplyHumanBuyMenu ==
    /\ calc = NoCalc
    /\ \E maxDelay \in MenuDelayInputs, minDelay \in MenuDelayInputs :
         LET r == humanBuyMenu(maxDelay, minDelay)
         IN  calc' = [fn |-> "humanBuyMenu",
                      args |-> <<maxDelay, minDelay>>,
                      out |-> <<r.started, r.maxDelay, r.minDelay, MenuLoopRunsAfter(r.threw)>>,
                      threw |-> <<r.threw>>]
    /\ UNCHANGED <<humanbuyVars, tracker>>

NextCalc ==
    \/ ApplyBuyQuote
    \/ ApplyDetermineNextSellPoint
    \/ ApplyConfiguredBuy
    \/ ApplyTickSizing
    \/ ApplyCalculateDirectBuyAmount
    \/ ApplyCalculateDynamicBuyAmount
    \/ ApplyRapidBuyMode2
    \/ ApplyHumanBuyMenu

SpecCalc == Init /\ [][NextCalc]_vars

TypeOK ==
    /\ version \in Versions
    /\ pc \in {"top", "delay", "sells", "selling", "done"}
    /\ pc # "done" => walletCyclePosition \in 0..Len(walletCycle)
    /\ usedSellWallets \subseteq Wallets
    /\ blacklistedWallets \subseteq usedSellWallets
    /\ DOMAIN successfulBuyWallets \subseteq Wallets
    /\ \A w \in Wallets : rebuyCountMap[w] \in 0..MaxRebuy(version)
    /\ soldWallets \subseteq usedSellWallets
    /\ faults \in 0..MaxFaults

\* ================================================================== claims
SellKinds == {"sellOk", "sellFailed", "sellThrew"}

\* C1: every sell transaction submitted by executeWalletSell is for an amount
\* not larger than the token balance the lookup of the same call reported,
\* and none is submitted when that balance is zero or could not be read.
\* Revision 2 turns a balance <= 0, an unreadable balance and a freshly
\* created account into a sell of amount 1.
C1_SellWithinReportedBalance ==
    (event.kind \in SellKinds /\ event.dispatched)
        => (event.reported >= 1 /\ event.amount <= event.reported)

\* C2: the wallet executeSessionSell selects (fallback included) is never a
\* member of usedSellWallets that has had no successful buy since it was put
\* there.
C2_SellerNotUsedWithoutNewBuy ==
    pc = "selling" =>
        ~(seller.wallet \in usedSellWallets /\ seller.wallet \notin boughtSinceUsed)

\* a seller is chosen while a used wallet without a new buy still holds tokens
C2_Witness ==
    /\ pc = "selling"
    /\ \E w \in DOMAIN successfulBuyWallets :
          w \in usedSellWallets /\ w \notin boughtSinceUsed /\ w # seller.wallet

\* C3: a wallet that has sold and then completed a successful rebuy is again
\* in the sell-eligible set at the sell triggers that follow, unless it is
\* the excluded most recent buyer.  usedSellWallets is never cleared, so the
\* rebought wallet stays filtered out.
C3_RebuyRestoresEligibility ==
    \A w \in Wallets :
        ( /\ pc = "sells"
          /\ w \in soldWallets
          /\ w \in boughtSinceUsed
          /\ w \in DOMAIN successfulBuyWallets
          /\ w # sellSeq.lastSellWallet )
        => w \in EligibleWallets(successfulBuyWallets, usedSellWallets, sellSeq.lastSellWallet)

\* the step is a successful buy of the rebuy entry of wallet w
SuccessfulRebuyStep(w) ==
    /\ pc = "delay"
    /\ buyCounter' = buyCounter + 1
    /\ walletInfo.wallet = w
    /\ walletInfo.isRebuy

\* C4: the rebuy count of a wallet never decreases, goes up by exactly 1 on
\* each successful rebuy of that wallet and on no other step, and never
\* exceeds MAX_REBUY_COUNT.
C4_RebuyCountSteps ==
    /\ [](\A w \in Wallets : rebuyCountMap[w] <= MaxRebuy(version))
    /\ [][\A w \in Wallets :
            /\ rebuyCountMap'[w] >= rebuyCountMap[w]
            /\ SuccessfulRebuyStep(w) => rebuyCountMap'[w] = rebuyCountMap[w] + 1
            /\ rebuyCountMap'[w] # rebuyCountMap[w] => SuccessfulRebuyStep(w)]_vars

\* a wallet has been rebought up to the limit
C4_Witness == \E w \in Wallets : rebuyCountMap[w] = MaxRebuy(version)

Retired == blacklistedWallets \cup {w \in Wallets : rebuyCountMap[w] >= MaxRebuy(version)}

\* C6: blacklisting is permanent, and a wallet that is blacklisted or at the
\* rebuy limit is never again put in a wallet cycle (no pending entry of the
\* cycle is such a wallet), never submitted for a buy and never chosen as the
\* seller.
C6_RetiredStaysOut ==
    /\ [][blacklistedWallets \subseteq blacklistedWallets']_vars
    /\ [](\A w \in Retired :
            /\ \A i \in (walletCyclePosition + 1)..Len(walletCycle) : walletCycle[i].wallet # w
            /\ ~(pc = "delay" /\ walletInfo.wallet = w)
            /\ ~(pc = "selling" /\ seller.wallet = w))

\* the scheduler processes a wallet of a cycle built after a blacklisting
C6_Witness ==
    /\ blacklistedWallets # {}
    /\ pc = "delay"
    /\ walletInfo.isRebuy

\* C7: when a buy triggers a sell sequence, the seller of every sell of the
\* sequence differs from the wallet that performed the triggering buy
\* whenever another eligible wallet exists.  Revision 2 moves the exclusion
\* to the wallet that sold last, so from the second sell on the buyer can be
\* chosen.
C7_SellerIsNotTriggeringBuyer ==
    (pc = "selling" /\ seller.wallet = walletInfo.wallet)
        => {w \in AvailableWallets(successfulBuyWallets, usedSellWallets) :
               w # walletInfo.wallet} = {}

\* C8: no buy transaction is dispatched while isPaused is true, also when the
\* flag is set during the delay and the lookups that precede the trade.  The
\* flag is read only at the top of the loop.
C8_NoBuyDispatchedWhilePaused ==
    (event.kind \in {"buyOk", "buyFailed"} /\ event.dispatched) => ~event.paused

\* C9: the pause flag is checked before each sell of a sell sequence: when
\* isPaused is set after the sequence has started, no further sell of that
\* sequence is submitted until it is cleared.  Neither sell loop reads the flag.
C9_NoSellSubmittedAfterPause ==
    ( /\ pc = "sells"
      /\ ~sellSeq.pausedAtStart
      /\ event.kind \in SellKinds
      /\ event.dispatched )
        => ~event.paused

\* the step ends a tick whose buy did not succeed
SkipStep == pc = "delay" /\ pc' # "delay" /\ buyCounter' = buyCounter

C11_StopsOnlyWhenDrained ==
    pc = "done" =>
        /\ \A w \in Range(selectedWallets) : w \notin DOMAIN successfulBuyWallets
        /\ RefillCandidates \ RefillAtLimit = {}

\* C12: when every selected wallet is blacklisted the main loop exits at the
\* next refill and the run ends normally: the final summary is produced and
\* no error is raised.  The loop does exit, but the finally block reads
\* buyCounter, which is declared inside the try block.
C12_AllBlacklistedEndsNormally ==
    (pc = "done" /\ Range(selectedWallets) \subseteq blacklistedWallets)
        => (runEnd.ended /\ runEnd.summaryLines = Len(FinallyReads) /\ ~runEnd.threw)

\* C13: a wallet is blacklisted only because its rebuy count reached the limit
\* or because a rebuy amount computed from a successfully read balance is
\* below the minimum; a failed balance, liquidity or submission call never
\* blacklists.  checkWalletBalance reports a failed lookup as balance 0, which
\* sizes the rebuy at 0, and the refill blacklists the wallet for it.
C13_BlacklistOnlyForLimitOrLowBalance ==
    \A w \in blacklistedWallets :
        \/ blacklistCause[w].atLimit
        \/ /\ ~LookupFailed(blacklistCause[w].obs)
           /\ RebuyTooSmall(version, blacklistCause[w].obs)

\* the step skips a buy for its balance
BuySkipStep == pc = "delay" /\ pc' = "top" /\ event'.kind = "skipBalance"

\* the step is a sell attempt whose token lookup reported zero tokens
ZeroTokenSellStep ==
    pc = "selling" /\ pc' # "selling" /\ event'.kind \in SellKinds /\ event'.reported = 0

\* C14: a buy skipped for insufficient balance and a sell skipped because the
\* selected wallet holds zero tokens change no scheduler state other than the
\* skip counter.  The skipped buy does; the sell with zero tokens puts the
\* wallet in usedSellWallets (and revision 2 submits the sell anyway).
C14_SkipChangesOnlySkipCounter ==
    [][(BuySkipStep \/ ZeroTokenSellStep) =>
          UNCHANGED <<successfulBuyWallets, usedSellWallets, rebuyCountMap,
                      blacklistedWallets, buyCounter, buysUntilNextSell>>]_vars

\* the step ends a sell sequence of revision 2 in which a sell went through
SequenceWithSaleEnds ==
    /\ version = 2
    /\ pc \in {"sells", "selling"}
    /\ pc' = "top"
    /\ sellSeq.sold > 0 \/ soldWallets' # soldWallets

FallbackUnreachedV2 == (version = 2 /\ pc = "selling") => ~seller.viaFallback

\* the step ends a sell sequence in which no sell went through: the sequence
\* found nothing to sell right at the trigger, or its last attempt failed
SequenceWithoutSaleEnds ==
    \/ /\ pc = "delay"
       /\ buyCounter' = buyCounter + 1
       /\ buyCounter' >= buysUntilNextSell
       /\ pc' = "top"
    \/ /\ pc \in {"sells", "selling"}
       /\ pc' = "top"
       /\ sellSeq.sold = 0
       /\ soldWallets' = soldWallets

\* C16: when a sell sequence ends with zero successful sells, a sell attempt
\* that raised an error included, buysUntilNextSell is set before the next
\* tick to buyCounter plus a short retry distance (2 to 4 buys).  In revision
\* 1 the error of a sell attempt leaves the tick before the assignment.
C16_RetryAfterFailedSequence ==
    [][SequenceWithoutSaleEnds =>
          buysUntilNextSell' \in {buyCounter' + NextAttempt(r) : r \in 0..999}]_vars

\* determineConsecutiveSells over its whole domain: every number of available
\* wallets from 1 up and every combination of the three draws
PlannedSellsInRange ==
    \A n \in 1..MaxAvailable : \A rand \in FineDraws, r1 \in FineDraws, r2 \in FineDraws :
        determineConsecutiveSells(n, rand, r1, r2) \in 1..Min(MaxConsecutiveSells, n)

\* C17: determineConsecutiveSells(availableWallets) plans at least 1 and at
\* most min(7, availableWallets) sells for every availableWallets >= 1 and
\* every draw, and a sell sequence never submits more sells than there were
\* sell-eligible wallets (holding, not yet used for a sell) when it started:
\* a sell about to be submitted, added to those already submitted in the
\* sequence, stays within that number.
C17_SellsWithinEligibleWallets ==
    /\ PlannedSellsInRange
    /\ (version = 2 /\ pc \in {"sells", "selling"}) =>
           sellSeq.count \in 1..Min(MaxConsecutiveSells, sellSeq.eligibleAtStart)
    /\ pc = "selling" => sellSeq.sold + 1 <= sellSeq.eligibleAtStart

\* a sequence about to submit a sell from its last eligible wallet, after
\* earlier sells of the same sequence
C17_Witness ==
    /\ version = 2
    /\ pc = "selling"
    /\ sellSeq.sold >= 1
    /\ sellSeq.sold + 1 = sellSeq.eligibleAtStart
    /\ sellSeq.count = sellSeq.eligibleAtStart

\* C18: every value returned by determineNextSellPoint, for every combination
\* of its random draws, is an integer within the configured bound [4, 17].
C18_NextSellPointWithinBounds ==
    calc.fn = "determineNextSellPoint" => calc.out[1] \in MinSellPoint..MaxSellPoint

\* the upper outer band (not the extremes band) reaches the maximum
C18_Witness ==
    /\ calc.fn = "determineNextSellPoint"
    /\ calc.args[1] \in 700..899
    /\ calc.out[1] = MaxSellPoint

\* C19: for all non-negative integer reserves and all amounts 0 <= a <= b,
\* buyQuote(a, reserves) <= buyQuote(b, reserves), and the result of buyQuote
\* never exceeds realTokenReserves.  With virtualTokenReserves = 0 a non-zero
\* amount is quoted -1 token, below the 0 quoted for the amount 0.
C19_BuyQuoteMonotoneAndCapped ==
    (calc.fn = "buyQuote" /\ calc.args[6] = 1) =>
        /\ calc.threw = <<FALSE, FALSE>>
        /\ calc.out[1] <= calc.out[2]
        /\ calc.out[1] <= calc.args[5]
        /\ calc.out[2] <= calc.args[5]

\* what holds of buyQuote: the cap by realTokenReserves always, the order of
\* the quotes when the curve has virtual token reserves
BuyQuoteCappedAndMonotoneWithTokens ==
    (calc.fn = "buyQuote" /\ calc.args[6] = 1) =>
        /\ calc.threw = <<FALSE, FALSE>>
        /\ calc.out[1] <= calc.args[5]
        /\ calc.out[2] <= calc.args[5]
        /\ calc.args[4] >= 1 => (0 <= calc.out[1] /\ calc.out[1] <= calc.out[2])

\* C20: buyQuote returns 0 when the amount is 0, whatever the reserves, and
\* returns 0 without raising when the reserves object is missing.
C20_BuyQuoteZeroCases ==
    calc.fn = "buyQuote" =>
        /\ calc.args[1] = 0 => (~calc.threw[1] /\ calc.out[1] = 0)
        /\ calc.args[2] = 0 => (~calc.threw[2] /\ calc.out[2] = 0)
        /\ calc.args[6] = 0 => (calc.threw = <<FALSE, FALSE>> /\ calc.out = <<0, 0>>)

\* buyQuote called without reserves, for the amount 0 and for a non-zero amount
C20_Witness ==
    /\ calc.fn = "buyQuote"
    /\ calc.args[6] = 0
    /\ calc.args[1] = 0
    /\ calc.args[2] > 0
    /\ calc.out = <<0, 0>>

\* C21: buyQuote returns 0 when the reserves are zero (virtualTokenReserves = 0,
\* or all reserves 0) and the amount is positive, and its result is never
\* negative for non-negative reserves and amounts.  With virtualTokenReserves
\* = 0 and a positive amount the code returns -1.
C21_BuyQuoteNeverNegative ==
    (calc.fn = "buyQuote" /\ calc.args[6] = 1) =>
        /\ calc.threw = <<FALSE, FALSE>>
        /\ calc.out[1] >= 0
        /\ calc.out[2] >= 0
        /\ (calc.args[4] = 0 /\ calc.args[2] > 0) => calc.out[2] = 0

\* ceil(n / d) for n >= 0 and d > 0
CeilDiv(n, d) == (n + d - 1) \div d

\* C22: for every reserve state with positive virtual reserves and every
\* positive amount in, the result of buyQuote equals min(realTokenReserves,
\* virtualTokenReserves - ceil(virtualSolReserves * virtualTokenReserves /
\* (virtualSolReserves + in))).  The code subtracts floor(...) + 1, which is
\* one more than the ceiling whenever the division is exact.
C22_BuyQuoteMatchesCeilFormula ==
    (calc.fn = "buyQuote" /\ calc.args[6] = 1 /\ calc.args[3] >= 1 /\ calc.args[4] >= 1
        /\ calc.args[2] >= 1) =>
        calc.out[2] = Min(calc.args[5],
                          calc.args[4] - CeilDiv(calc.args[3] * calc.args[4],
                                                 calc.args[3] + calc.args[2]))

\* what the code computes instead: floor of the quotient plus one
BuyQuoteMatchesFloorPlusOne ==
    (calc.fn = "buyQuote" /\ calc.args[6] = 1 /\ calc.args[2] >= 1) =>
        calc.out[2] = Min(calc.args[5],
                          calc.args[4] - ((calc.args[3] * calc.args[4])
                                              \div (calc.args[3] + calc.args[2]) + 1))

\* no wallet occurs twice in the cycle
EachWalletOnce(cycle) ==
    \A i, j \in 1..Len(cycle) : cycle[i].wallet = cycle[j].wallet => i = j

\* C23: within one wallet cycle (the initial cycle and every rebuy cycle) each
\* wallet appears at most once, and the loop takes the entries one after the
\* other, so no wallet is submitted for more than one buy in the same cycle:
\* a tick takes the next entry of the cycle or, when the cycle is used up,
\* the first entry of a new one, and the cycle and the position are only
\* changed at the top of the loop.
C23_EachWalletOncePerCycle ==
    [][/\ EachWalletOnce(walletCycle)
       /\ EachWalletOnce(walletCycle')
       /\ (pc = "top" /\ pc' = "delay") =>
             /\ walletInfo' = walletCycle'[walletCyclePosition']
             /\ IF walletCyclePosition < Len(walletCycle)
                THEN walletCycle' = walletCycle /\ walletCyclePosition' = walletCyclePosition + 1
                ELSE walletCyclePosition' = 1
       /\ pc # "top" => UNCHANGED <<walletCycle, walletCyclePosition, walletInfo>>]_vars

\* the second wallet of a rebuy cycle is being processed
C23_Witness ==
    /\ pc = "delay"
    /\ Len(walletCycle) >= 2
    /\ walletCycle[1].isRebuy
    /\ walletCyclePosition = 2

\* C24: only wallets that are UsedForSell are re-admitted to a rebuy cycle:
\* a wallet taken from a rebuy cycle for its buy has sold since its last
\* successful buy and is not Holding (in successfulBuyWallets).  The refill
\* goes by usedSellWallets, which keeps a wallet after its rebuy and also
\* holds the wallets whose sell failed.
C24_RebuyOnlyAfterSell ==
    (pc = "delay" /\ walletInfo.isRebuy) =>
        /\ walletInfo.wallet \notin DOMAIN successfulBuyWallets
        /\ walletInfo.wallet \in soldWallets
        /\ walletInfo.wallet \notin boughtSinceUsed

\* the part that holds: a wallet of a rebuy cycle is in usedSellWallets
RebuyOnlyFromUsedSellWallets ==
    \A i \in 1..Len(walletCycle) :
        walletCycle[i].isRebuy => walletCycle[i].wallet \in usedSellWallets

\* C25: each wallet has one status at a time: in every reachable state no
\* wallet is both in successfulBuyWallets (Holding) and in usedSellWallets
\* (UsedForSell).  A rebuy puts a used wallet back into successfulBuyWallets
\* without taking it out of usedSellWallets.
C25_HoldingAndUsedDisjoint ==
    DOMAIN successfulBuyWallets \cap usedSellWallets = {}

\* the step submits a trade: a buy from the delay, a sell from the selection
DispatchStep == pc \in {"delay", "selling"} /\ event'.dispatched

\* C26: at most one trade submission of the scheduler is outstanding at any
\* time: no trade is dispatched while an earlier submission has neither
\* resolved nor been rejected, also after the 5-second timeout of that
\* earlier submission has fired.  The timeout only ends the wait: the send
\* goes on, and the loop dispatches the next trade.
C26_OneSubmissionOutstanding ==
    [][DispatchStep => pendingSends = 0]_vars

\* what holds: the scheduler awaits every submission until it settles or its
\* timeout fires, so apart from abandoned sends nothing is outstanding when
\* a trade is dispatched, and every timeout leaves at most one send behind
AbandonedSendsOnly == pendingSends <= faults

\* C27: in deterministic sizing a wallet without an entry in the allocation
\* table (buyAmounts.json) is never bought for: no substitute amount is
\* guessed and the wallet is skipped.  humanbuy of revision 1 gives such a
\* wallet config.minBuy and buys with it.
C27_NoAllocationNoBuy ==
    (calc.fn = "configuredBuy" /\ calc.args[1] \in {0, 1}) => calc.out[2] = 0

\* the part that holds: a wallet with an entry is bought for with the amount
\* of its entry
EntryAmountIsUsed ==
    (calc.fn = "configuredBuy" /\ calc.args[1] = 2) => calc.out[1] = calc.args[2]

\* C28: when the amount computed for a wallet's buy attempt in the main loop
\* is below the minimum trade threshold (0.01 SOL), no buy is submitted for
\* the wallet in that attempt (and the wallet is not blacklisted).  The tick
\* hands the computed amount to executeBuy without comparing it with 0.01.
C28_SmallAmountNotSubmitted ==
    (calc.fn = "tickSizing" /\ calc.out[1] = 1 /\ calc.out[2] < MinRebuyAmount) =>
        calc.out[3] = 0

\* the part that holds: no step outside the refill changes blacklistedWallets
BlacklistOnlyInRefill ==
    [][blacklistedWallets' # blacklistedWallets =>
          (pc = "top" /\ walletCyclePosition >= Len(walletCycle))]_vars

\* C29: during a refill (revision 2) a wallet whose freshly computed rebuy
\* amount is below the minimum trade threshold is added to blacklistedWallets
\* in that same refill, is not placed in the new cycle, and no buy is ever
\* submitted for it afterwards: from the refill on it is blacklisted, in no
\* cycle, and never the wallet of a tick.
C29_SmallRebuyIsBlacklisted ==
    \A w \in sizedBelowMinimum :
        /\ w \in blacklistedWallets
        /\ \A i \in 1..Len(walletCycle) : walletCycle[i].wallet # w
        /\ pc = "delay" => walletInfo.wallet # w

\* a refill has blacklisted a wallet for its amount and the run goes on with
\* a buy of another wallet
C29_Witness ==
    /\ sizedBelowMinimum # {}
    /\ pc = "delay"
    /\ walletInfo.isRebuy
    /\ buyCounter > 0

\* amount lies between lo and hi thousandths of b, up to the one millionth
\* that the rounding down to 6 decimals may take
WithinShare(amount, b, lo, hi) ==
    /\ amount + 1 >= MulDiv(b, lo, 1000)
    /\ amount <= MulDiv(b, hi, 1000)

\* C30: under the percentage-of-balance rule (calculateDirectBuyAmount) the
\* amount returned for a spendable balance b lies between 40% and 60% of b
\* when b > 5, between 50% and 70% when 1 <= b <= 5, and between 60% and 80%
\* when b < 1, for every draw.  The cap of 5 SOL, the floor min(0.1, 0.9 b)
\* and the test b > 1 (not b >= 1) take the amount out of these bands.
C30_DirectAmountWithinBand ==
    calc.fn = "calculateDirectBuyAmount" =>
        LET b == calc.args[1]
            amount == calc.out[1]
        IN  IF b > 5000000 THEN WithinShare(amount, b, 400, 600)
            ELSE IF b >= 1000000 THEN WithinShare(amount, b, 500, 700)
            ELSE WithinShare(amount, b, 600, 800)

\* what holds: the bands as the code draws them (b > 5, b > 1, else) while
\* neither the cap of 5 SOL nor the floor min(0.1, 0.9 b) acts, and never
\* more than 90% of b or 5 SOL
DirectAmountWithinCodeBands ==
    calc.fn = "calculateDirectBuyAmount" =>
        LET b == calc.args[1]
            amount == calc.out[1]
        IN  /\ amount <= Min(5000000, Max(MulDiv(b, 800, 1000), MulDiv(b, 9, 10)))
            /\ (b >= 166667 /\ b <= 8000000) =>
                  IF b > 5000000 THEN WithinShare(amount, b, 400, 600)
                  ELSE IF b > 1000000 THEN WithinShare(amount, b, 500, 700)
                  ELSE WithinShare(amount, b, 600, 800)

\* C31: the amount returned by calculateDynamicBuyAmount, multiplied by the
\* tokens-per-SOL ratio it estimated from the quote, never exceeds the
\* configured maximum supply exposure (29,000,000 tokens).  With integer
\* amounts, amount * ratio <= MAX_TARGET_TOKENS is amount <= maxSolForTarget.
\* The code raises the capped amount to 0.1 SOL afterwards.
C31_AmountWithinSupplyExposure ==
    (calc.fn = "calculateDynamicBuyAmount" /\ calc.args[2] = 1 /\ calc.args[3] > 0)
        => calc.out[1] <= calc.out[2]

\* what the code keeps: the estimate path returns no more than the larger of
\* the supply cap and 0.1 SOL, and no more than the hard cap
EstimateWithinCapOrFloor ==
    (calc.fn = "calculateDynamicBuyAmount" /\ calc.args[2] = 1 /\ calc.out[3] > 0)
        => /\ calc.out[1] <= Max(calc.out[2], 100000)
           /\ calc.out[1] <= HardCap

\* C35: the amount returned by calculateDynamicBuyAmount never exceeds the
\* wallet's spendable balance (balance minus the 0.05 SOL reserve), on every
\* path.  The estimate path returns at least 0.1 SOL whatever the balance.
C35_AmountWithinSpendableBalance ==
    calc.fn = "calculateDynamicBuyAmount" => calc.out[1] <= calc.out[3]

\* what the code keeps: every path but the estimate path stays within the
\* spendable balance
OtherPathsWithinSpendableBalance ==
    (calc.fn = "calculateDynamicBuyAmount" /\ calc.args[2] # 1)
        => calc.out[1] <= calc.out[3]

\* C32: at the start of every scheduler tick buysUntilNextSell is strictly
\* greater than buyCounter: whenever a successful buy makes buyCounter reach
\* the threshold, the threshold is moved past buyCounter before the next tick,
\* whatever the outcome of the sell sequence (success, failure or raised
\* error).  Revision 1 leaves the threshold where it was when the sell raises.
C32_ThresholdAheadAtTickStart ==
    pc = "top" => buysUntilNextSell > buyCounter

\* what the code keeps: a step that counts a buy or ends a sell sequence and
\* returns to the head of the loop leaves the threshold past the counter,
\* unless a sell of revision 1 raised
ThresholdAheadUnlessSellRaisedV1 ==
    [][(/\ pc' = "top"
        /\ (buyCounter' # buyCounter \/ pc \in {"sells", "selling"})
        /\ event'.kind # "sellThrew")
          => buysUntilNextSell' > buyCounter']_vars

RECURSIVE RebuysCounted(_)
RebuysCounted(n) == IF n = 0 THEN 0 ELSE rebuyCountMap[n] + RebuysCounted(n - 1)

\* every counted buy is the first buy of a selected wallet or a counted rebuy
BuysAreFirstBuysOrRebuys ==
    buyCounter <= Len(selectedWallets) + RebuysCounted(NumWallets)

C34_DepletedRunStops ==
    <>(pc = "done" \/ buyCounter >= MaxBuys)

\* what the code keeps: revision 2 retires a wallet whose balance is within
\* the fee reserve at the refill that sizes it
BelowReserveIsBlacklisted ==
    [][\A w \in Wallets :
          (/\ version = 2
           /\ w \notin blacklistedWallets /\ w \in blacklistedWallets'
           /\ ~blacklistCause'[w].atLimit)
             => calculateDynamicBuyAmount(blacklistCause'[w].obs) < MinRebuyAmount]_vars

\* the delay that passes after the wallet at position i of the call recorded
\* in calc (none when the wallet was skipped)
DelayAfter(i) == IF calc.out[3][i] THEN calc.out[2][i] ELSE 0

RapidProcessed == calc.fn = "rapidBuyMode2" /\ calc.out[1] >= 2

C37_RapidBuyMode2ReturnsNormally ==
    RapidProcessed => (~calc.threw[1] /\ calc.out[4])

\* what the code keeps: the call returns normally when the delays entered are
\* rejected, before any wallet is processed
CancelledCallReturns ==
    (calc.fn = "rapidBuyMode2" /\ calc.out[1] = 0) => (~calc.threw[1] /\ calc.out[4])

\* C38: after every processed batch the display table holds at most the
\* limit of rows (20 in the code) and those rows are the most recent valid
\* transactions seen so far: a newly seen transaction is never dropped from
\* the table while an older one is kept.  New rows are pushed at the end of
\* the table and the trimming removes the last rows.
C38_TableHoldsMostRecent ==
    /\ Len(tracker.table) <= MaxTableRows
    /\ \A t \in tracker.valid :
          (\E i \in 1..Len(tracker.table) : tracker.table[i] < t)
             => \E i \in 1..Len(tracker.table) : tracker.table[i] = t

\* what the code keeps: the table never exceeds the limit, holds valid
\* transactions only, and a row once kept is never displaced
TableKeepsItsRows ==
    /\ [](Len(tracker.table) <= MaxTableRows)
    /\ [](\A i \in 1..Len(tracker.table) : tracker.table[i] \in tracker.valid)
    /\ [][/\ Len(tracker.table') >= Len(tracker.table)
          /\ SubSeq(tracker.table', 1, Len(tracker.table)) = tracker.table]_vars

\* C39: in the Human Buy menu action, when the delays entered are invalid
\* (not a number, negative, or minimum greater than maximum), humanbuy is
\* started with the defaults maxDelay = 10000 ms and minDelay = 5000 ms and
\* the main menu loop keeps running.  The two delays are const bindings.
C39_InvalidDelaysUseDefaults ==
    (/\ calc.fn = "humanBuyMenu"
     /\ (calc.args[1] < 0 \/ calc.args[2] < 0 \/ calc.args[2] > calc.args[1]))
        => /\ calc.out[1]
           /\ calc.out[2] = DefaultMaxDelay
           /\ calc.out[3] = DefaultMinDelay
           /\ calc.out[4]

\* what the code keeps: valid delays start humanbuy with the values entered
ValidDelaysAreUsed ==
    (/\ calc.fn = "humanBuyMenu"
     /\ calc.args[1] >= 0 /\ calc.args[2] >= 0 /\ calc.args[2] <= calc.args[1])
        => /\ calc.out[1]
           /\ calc.out[2] = calc.args[1]
           /\ calc.out[3] = calc.args[2]
           /\ ~calc.threw[1]

====
